---- MODULE Spec2Model ----
(***************************************************************************)
(* Model of salt/pillar/oracle.py: the Oracle ext_pillar connector.        *)
(*                                                                         *)
(* The module contributes the capability check __virtual__, the option     *)
(* resolution OracleExtPillar._get_options and the scoped acquisition      *)
(* OracleExtPillar._get_cursor (a @contextmanager generator).  The body of *)
(* the `with self._get_cursor()` block lives in SqlBaseExtPillar.fetch,    *)
(* which is outside this module; it is modelled by its three possible      *)
(* outcomes: it ends normally, it raises cx_Oracle.DatabaseError, or it    *)
(* raises some other exception.  cx_Oracle.connect and conn.cursor() are   *)
(* driver calls that either succeed or raise cx_Oracle.DatabaseError.      *)
(* conn.close() is taken to succeed.                                       *)
(*                                                                         *)
(* Python values are records [t, s, n, b] so that strings, integers,       *)
(* booleans and None can sit in one dictionary and keep Python truthiness.  *)
(***************************************************************************)
EXTENDS Integers, Sequences, FiniteSets, TLC

(* ---------------------------- bounds ---------------------------------- *)

\* number of fetch calls (ext_pillar invocations) that may run concurrently
NumCalls == 2

Calls == 1..NumCalls

(* ------------------------- Python values ------------------------------ *)

PyStr(x)  == [t |-> "str",  s |-> x,  n |-> 0, b |-> FALSE]
PyInt(x)  == [t |-> "int",  s |-> "", n |-> x, b |-> FALSE]
PyBool(x) == [t |-> "bool", s |-> "", n |-> 0, b |-> x]
PyNone    == [t |-> "none", s |-> "", n |-> 0, b |-> FALSE]

\* Python truth value of an object, as tested by `if _options['service']:`
Truthy(v) ==
    CASE v.t = "str"  -> v.s # ""
      [] v.t = "int"  -> v.n # 0
      [] v.t = "bool" -> v.b
      [] OTHER        -> FALSE

\* the empty dict {}
EmptyDict == [k \in {} |-> PyNone]

\* d.get(k, default)
DictGet(d, k, default) == IF k \in DOMAIN d THEN d[k] ELSE default

(* ------------------------- __virtual__ -------------------------------- *)

\* bool(cx_Oracle): the imported module object is truthy, None is not
DriverBool(m) == m # "None"

virtualSwapped(m) ==
    <<DriverBool(m), IF m # "None" THEN "No python oracle client installed." ELSE "">>

\* return bool(cx_Oracle), 'No python ...' if cx_Oracle is None else ''
virtual(m) ==
    <<DriverBool(m), IF m = "None" THEN "No python oracle client installed." ELSE "">>

(* ------------------------- _get_options ------------------------------- *)

\* iteration order of `for attr in defaults`
DefaultKeys == <<"user", "pass", "host", "port", "sid", "service">>

defaults ==
    [user    |-> PyStr("salt"),
     pass    |-> PyStr("salt"),
     host    |-> PyStr("localhost"),
     port    |-> PyInt(1521),
     sid     |-> PyStr("XE"),
     service |-> PyBool(FALSE)]

DebugEntry(attr) ==
    [level |-> "debug", msg |-> "Using default for Oracle %s", arg |-> attr]

\* mutant: a falsy configured value is replaced by the default
LoopBodyFalsyDefault(attr, _opts, acc) ==
    IF ~(attr \in DOMAIN _opts /\ Truthy(_opts[attr]))
    THEN [options |-> acc.options @@ (attr :> defaults[attr]),
          log     |-> Append(acc.log, DebugEntry(attr))]
    ELSE [options |-> acc.options @@ (attr :> _opts[attr]),
          log     |-> acc.log]

\* mutant: the debug entry is emitted for every key
LoopBodyLogAlways(attr, _opts, acc) ==
    IF attr \notin DOMAIN _opts
    THEN [options |-> acc.options @@ (attr :> defaults[attr]),
          log     |-> Append(acc.log, DebugEntry(attr))]
    ELSE [options |-> acc.options @@ (attr :> _opts[attr]),
          log     |-> Append(acc.log, DebugEntry(attr))]

\* one iteration of the for loop; acc carries _options and the entries logged
LoopBody(attr, _opts, acc) ==
    IF attr \notin DOMAIN _opts
    THEN [options |-> acc.options @@ (attr :> defaults[attr]),
          log     |-> Append(acc.log, DebugEntry(attr))]
    ELSE [options |-> acc.options @@ (attr :> _opts[attr]),
          log     |-> acc.log]

RECURSIVE OptionsLoop(_, _, _)
OptionsLoop(attrs, _opts, acc) ==
    IF attrs = <<>> THEN acc
    ELSE OptionsLoop(Tail(attrs), _opts, LoopBody(Head(attrs), _opts, acc))

\* _get_options: the resolved _options together with the debug entries logged
_get_options(globalOpts) ==
    LET _opts == DictGet(globalOpts, "oracle", EmptyDict)
    IN  OptionsLoop(DefaultKeys, _opts, [options |-> EmptyDict, log |-> <<>>])

(* ------------------------- cx_Oracle driver --------------------------- *)

\* cx_Oracle.makedsn(host, port, sid=None, service_name=None): the descriptor
\* is represented by the arguments it was built from
makedsn(host, port, sid, service_name) ==
    [host |-> host, port |-> port, sid |-> sid, service_name |-> service_name]

NoDsn == makedsn(PyNone, PyNone, PyNone, PyNone)

\* mutant: the descriptor is chosen by presence of a value, not by truth
BuildDsnNotNone(o) ==
    IF o["service"] # PyNone /\ o["service"] # PyBool(FALSE)
    THEN makedsn(o["host"], o["port"], PyNone, o["service"])
    ELSE makedsn(o["host"], o["port"], o["sid"], PyNone)

\* lines 107-110: choice of the descriptor from the resolved options
BuildDsn(o) ==
    IF Truthy(o["service"])
    THEN makedsn(o["host"], o["port"], PyNone, o["service"])
    ELSE makedsn(o["host"], o["port"], o["sid"], PyNone)

\* a live connection object created by cx_Oracle.connect
NewConnection(i, user, password, d) ==
    [opener |-> i, user |-> user, pass |-> password, dsn |-> d,
     open |-> TRUE, closes |-> 0, closedBy |-> {}, usedBy |-> {}]

(* ------------------------- configuration ------------------------------ *)

Missing == [t |-> "missing", s |-> "", n |-> 0, b |-> FALSE]

\* candidate contents of the `oracle:` block of the master configuration;
\* `timeout` is a key the connector does not know
BlockChoices ==
    [user    : {Missing, PyStr("scott")},
     pass    : {Missing, PyStr("")},
     host    : {Missing, PyStr("db1")},
     port    : {Missing, PyStr("abc")},
     sid     : {Missing, PyStr("ORCL")},
     service : {Missing, PyBool(FALSE), PyStr(""), PyStr("svc")},
     timeout : {Missing, PyInt(0)}]

BlockOf(c) == [k \in {x \in DOMAIN c : c[x] # Missing} |-> c[k]]

\* __opts__ with an `oracle` block, or without one
GlobalOpts ==
    {("oracle" :> BlockOf(c)) : c \in BlockChoices} \cup {EmptyDict}

\* the configurations that differ in how the database is addressed only
AddressingOpts ==
    {("oracle" :> BlockOf(c)) :
        c \in {x \in BlockChoices :
                 \A k \in {"user", "pass", "host", "port", "timeout"} :
                     x[k] = Missing}}
    \cup {EmptyDict}

(* ------------------------- state -------------------------------------- *)

VARIABLES
    cx_Oracle,      \* "module" when the import succeeded, "None" otherwise
    __opts__,       \* the master configuration
    virtualResult,  \* what __virtual__ returned, <<>> before it has run
    pc,             \* position of each fetch call
    _options,       \* local _options of each call
    dsn,            \* local dsn of each call
    conn,           \* local conn of each call: index into connections, 0 unset
    cursor,         \* cursor yielded to the body: its connection, 0 unset
    exc,            \* exception in flight in each call
    bodyOutcome,    \* how the body of the with block ended in each call
    log,            \* log entries emitted by each call
    connections     \* every connection the driver has opened, in order

vars == <<cx_Oracle, __opts__, virtualResult, pc, _options, dsn, conn, cursor,
          exc, bodyOutcome, log, connections>>

NoExc == "none"

InitWith(configs) ==
    /\ cx_Oracle \in {"module", "None"}
    /\ __opts__ \in configs
    /\ virtualResult = <<>>
    /\ pc = [i \in Calls |-> "idle"]
    /\ _options = [i \in Calls |-> EmptyDict]
    /\ dsn = [i \in Calls |-> NoDsn]
    /\ conn = [i \in Calls |-> 0]
    /\ cursor = [i \in Calls |-> 0]
    /\ exc = [i \in Calls |-> NoExc]
    /\ bodyOutcome = [i \in Calls |-> "not_run"]
    /\ log = [i \in Calls |-> <<>>]
    /\ connections = <<>>

\* concurrent fetch calls
Init == InitWith(AddressingOpts)

\* one fetch call, every configuration
InitSingle == InitWith(GlobalOpts)

(* ------------------------- actions ------------------------------------ *)

\* the loader runs __virtual__ when it registers the module
Virtual ==
    /\ virtualResult = <<>>
    /\ virtualResult' = virtual(cx_Oracle)
    /\ UNCHANGED <<cx_Oracle, __opts__, pc, _options, dsn, conn, cursor, exc,
                   bodyOutcome, log, connections>>

\* ext_pillar: OracleExtPillar().fetch(...) enters `with self._get_cursor()`;
\* the loader only offers ext_pillar when __virtual__ reported true
ext_pillar(i) ==
    /\ pc[i] = "idle"
    /\ virtualResult # <<>>
    /\ virtualResult[1]
    /\ pc' = [pc EXCEPT ![i] = "get_options"]
    /\ UNCHANGED <<cx_Oracle, __opts__, virtualResult, _options, dsn, conn,
                   cursor, exc, bodyOutcome, log, connections>>

\* line 106: _options = self._get_options()
GetOptions(i) ==
    /\ pc[i] = "get_options"
    /\ LET r == _get_options(__opts__)
       IN  /\ _options' = [_options EXCEPT ![i] = r.options]
           /\ log' = [log EXCEPT ![i] = log[i] \o r.log]
    /\ pc' = [pc EXCEPT ![i] = "makedsn"]
    /\ UNCHANGED <<cx_Oracle, __opts__, virtualResult, dsn, conn, cursor, exc,
                   bodyOutcome, connections>>

\* lines 107-110
MakeDsn(i) ==
    /\ pc[i] = "makedsn"
    /\ dsn' = [dsn EXCEPT ![i] = BuildDsn(_options[i])]
    /\ pc' = [pc EXCEPT ![i] = "connect"]
    /\ UNCHANGED <<cx_Oracle, __opts__, virtualResult, _options, conn, cursor,
                   exc, bodyOutcome, log, connections>>

\* line 111, the driver opens the connection
ConnectOk(i) ==
    /\ pc[i] = "connect"
    /\ connections' = Append(connections,
           NewConnection(i, _options[i]["user"], _options[i]["pass"], dsn[i]))
    /\ conn' = [conn EXCEPT ![i] = Len(connections) + 1]
    /\ pc' = [pc EXCEPT ![i] = "cursor"]
    /\ UNCHANGED <<cx_Oracle, __opts__, virtualResult, _options, dsn, cursor,
                   exc, bodyOutcome, log>>

\* mutant: the connection failure is caught, logged and suppressed
ConnectFailCaught(i) ==
    /\ pc[i] = "connect"
    /\ log' = [log EXCEPT ![i] = Append(log[i],
           [level |-> "exception", msg |-> "Error in ext_pillar Oracle: %s",
            arg |-> "DatabaseError"])]
    /\ pc' = [pc EXCEPT ![i] = "returned"]
    /\ UNCHANGED <<cx_Oracle, __opts__, virtualResult, _options, dsn, conn,
                   cursor, exc, bodyOutcome, connections>>

\* line 111, the driver raises cx_Oracle.DatabaseError: the statement is
\* outside the try block, the exception leaves the generator before the yield
ConnectFail(i) ==
    /\ pc[i] = "connect"
    /\ exc' = [exc EXCEPT ![i] = "DatabaseError"]
    /\ pc' = [pc EXCEPT ![i] = "raised"]
    /\ UNCHANGED <<cx_Oracle, __opts__, virtualResult, _options, dsn, conn,
                   cursor, bodyOutcome, log, connections>>

\* lines 112-114: the cursor is obtained and yielded to the body
CursorOk(i) ==
    /\ pc[i] = "cursor"
    /\ cursor' = [cursor EXCEPT ![i] = conn[i]]
    /\ pc' = [pc EXCEPT ![i] = "yielded"]
    /\ UNCHANGED <<cx_Oracle, __opts__, virtualResult, _options, dsn, conn,
                   exc, bodyOutcome, log, connections>>

\* line 112, conn.cursor() raises: also outside the try block, so neither
\* the except clause nor the finally clause runs
CursorFail(i) ==
    /\ pc[i] = "cursor"
    /\ exc' = [exc EXCEPT ![i] = "DatabaseError"]
    /\ pc' = [pc EXCEPT ![i] = "raised"]
    /\ UNCHANGED <<cx_Oracle, __opts__, virtualResult, _options, dsn, conn,
                   cursor, bodyOutcome, log, connections>>

\* the body uses its cursor and ends normally: the generator resumes after
\* the yield with nothing in flight
BodyReturn(i) ==
    /\ pc[i] = "yielded"
    /\ connections' = [connections EXCEPT
           ![cursor[i]].usedBy = @ \cup {i}]
    /\ bodyOutcome' = [bodyOutcome EXCEPT ![i] = "normal"]
    /\ pc' = [pc EXCEPT ![i] = "finally"]
    /\ UNCHANGED <<cx_Oracle, __opts__, virtualResult, _options, dsn, conn,
                   cursor, exc, log>>

\* the body uses its cursor and raises e: thrown into the generator at the yield
BodyRaise(i, e) ==
    /\ pc[i] = "yielded"
    /\ connections' = [connections EXCEPT
           ![cursor[i]].usedBy = @ \cup {i}]
    /\ bodyOutcome' = [bodyOutcome EXCEPT ![i] = e]
    /\ exc' = [exc EXCEPT ![i] = e]
    /\ pc' = [pc EXCEPT ![i] = "except"]
    /\ UNCHANGED <<cx_Oracle, __opts__, virtualResult, _options, dsn, conn,
                   cursor, log>>

ExceptionEntry(e) ==
    [level |-> "exception", msg |-> "Error in ext_pillar Oracle: %s", arg |-> e]

\* mutant: the error is logged and re-raised
ExceptReraise(i) ==
    /\ pc[i] = "except"
    /\ IF exc[i] = "DatabaseError"
       THEN /\ log' = [log EXCEPT ![i] = Append(log[i], ExceptionEntry(exc[i]))]
            /\ exc' = exc
       ELSE UNCHANGED <<log, exc>>
    /\ pc' = [pc EXCEPT ![i] = "finally"]
    /\ UNCHANGED <<cx_Oracle, __opts__, virtualResult, _options, dsn, conn,
                   cursor, bodyOutcome, connections>>

\* mutant: `except Exception` instead of `except cx_Oracle.DatabaseError`
ExceptCatchAll(i) ==
    /\ pc[i] = "except"
    /\ log' = [log EXCEPT ![i] = Append(log[i], ExceptionEntry(exc[i]))]
    /\ exc' = [exc EXCEPT ![i] = NoExc]
    /\ pc' = [pc EXCEPT ![i] = "finally"]
    /\ UNCHANGED <<cx_Oracle, __opts__, virtualResult, _options, dsn, conn,
                   cursor, bodyOutcome, connections>>

\* lines 115-116: the except clause handles cx_Oracle.DatabaseError only
Except(i) ==
    /\ pc[i] = "except"
    /\ IF exc[i] = "DatabaseError"
       THEN /\ log' = [log EXCEPT ![i] = Append(log[i], ExceptionEntry(exc[i]))]
            /\ exc' = [exc EXCEPT ![i] = NoExc]
       ELSE UNCHANGED <<log, exc>>
    /\ pc' = [pc EXCEPT ![i] = "finally"]
    /\ UNCHANGED <<cx_Oracle, __opts__, virtualResult, _options, dsn, conn,
                   cursor, bodyOutcome, connections>>

\* mutant: the finally clause does not close the connection
FinallyNoClose(i) ==
    /\ pc[i] = "finally"
    /\ pc' = [pc EXCEPT ![i] = IF exc[i] = NoExc THEN "returned" ELSE "raised"]
    /\ UNCHANGED <<cx_Oracle, __opts__, virtualResult, _options, dsn, conn,
                   cursor, exc, bodyOutcome, log, connections>>

\* lines 117-118: conn.close(), then the generator ends; the with statement
\* completes normally, or re-raises the exception still in flight
Finally(i) ==
    /\ pc[i] = "finally"
    /\ connections' = [connections EXCEPT
           ![conn[i]].open = FALSE,
           ![conn[i]].closes = @ + 1,
           ![conn[i]].closedBy = @ \cup {i}]
    /\ pc' = [pc EXCEPT ![i] = IF exc[i] = NoExc THEN "returned" ELSE "raised"]
    /\ UNCHANGED <<cx_Oracle, __opts__, virtualResult, _options, dsn, conn,
                   cursor, exc, bodyOutcome, log>>

\* the steps of one fetch call
Fetch(i) ==
    \/ ext_pillar(i)
    \/ GetOptions(i)
    \/ MakeDsn(i)
    \/ ConnectOk(i)
    \/ ConnectFail(i)
    \/ CursorOk(i)
    \/ CursorFail(i)
    \/ BodyReturn(i)
    \/ \E e \in {"DatabaseError", "OtherError"} : BodyRaise(i, e)
    \/ Except(i)
    \/ Finally(i)

Next ==
    \/ Virtual
    \/ \E i \in Calls : Fetch(i)

Spec == Init /\ [][Next]_vars

NextSingle ==
    \/ Virtual
    \/ Fetch(1)

SpecSingle == InitSingle /\ [][NextSingle]_vars

(* ------------------------- properties --------------------------------- *)

Terminal == {"returned", "raised"}

\* the connections call i has opened
OpenedBy(i) == {c \in 1..Len(connections) : connections[c].opener = i}

RECURSIVE CountLevel(_, _)
CountLevel(entries, level) ==
    IF entries = <<>> THEN 0
    ELSE (IF Head(entries).level = level THEN 1 ELSE 0)
         + CountLevel(Tail(entries), level)

RECURSIVE CountDebugFor(_, _)
CountDebugFor(entries, attr) ==
    IF entries = <<>> THEN 0
    ELSE (IF Head(entries).level = "debug" /\ Head(entries).arg = attr
          THEN 1 ELSE 0)
         + CountDebugFor(Tail(entries), attr)

\* the `oracle` block the master configuration holds, empty when absent
ConfiguredBlock ==
    IF "oracle" \in DOMAIN __opts__ THEN __opts__["oracle"] ELSE EmptyDict

SixKeys == {"user", "pass", "host", "port", "sid", "service"}

\* the defaults as documented for the configuration block
DocumentedDefault(k) ==
    CASE k = "user"    -> PyStr("salt")
      [] k = "pass"    -> PyStr("salt")
      [] k = "host"    -> PyStr("localhost")
      [] k = "port"    -> PyInt(1521)
      [] k = "sid"     -> PyStr("XE")
      [] k = "service" -> PyBool(FALSE)

\* call i has resolved its options
Resolved(i) == pc[i] \notin {"idle", "get_options"}

\* C1: when the cursor was yielded and the body ended normally or raised a
\* database error, the call has opened exactly one connection and that
\* connection has been closed exactly once when the scope has exited.
C1_OneOpenOneClose ==
    \A i \in Calls :
        (pc[i] \in Terminal /\ bodyOutcome[i] \in {"normal", "DatabaseError"})
        => /\ Cardinality(OpenedBy(i)) = 1
           /\ \A c \in OpenedBy(i) :
                 connections[c].closes = 1 /\ ~connections[c].open

C1_Witness ==
    \E i, j \in Calls :
        /\ pc[i] = "returned" /\ bodyOutcome[i] = "normal"
        /\ pc[j] = "returned" /\ bodyOutcome[j] = "DatabaseError"

\* C2: a database error raised by the body is not propagated: it is logged
\* exactly once and the scope exits normally with no exception pending.
C2_DatabaseErrorSuppressed ==
    \A i \in Calls :
        (pc[i] \in Terminal /\ bodyOutcome[i] = "DatabaseError")
        => /\ pc[i] = "returned"
           /\ exc[i] = NoExc
           /\ CountLevel(log[i], "exception") = 1

C2_Witness ==
    \E i \in Calls : pc[i] = "returned" /\ bodyOutcome[i] = "DatabaseError"

\* C3 as stated: a database error raised before the body runs (while opening
\* the connection or obtaining the cursor) is suppressed, nothing reaches
\* the caller.
C3_PreBodyFailureSuppressed ==
    \A i \in Calls :
        (pc[i] \in Terminal /\ bodyOutcome[i] = "not_run")
        => pc[i] = "returned" /\ exc[i] = NoExc

\* C3 amended: a database error raised before the body runs is not caught by
\* the scoped acquisition: it reaches the caller, nothing is logged for it
\* and the body never runs.
C3_PreBodyFailurePropagates ==
    \A i \in Calls :
        (pc[i] \in Terminal /\ bodyOutcome[i] = "not_run")
        => /\ pc[i] = "raised"
           /\ exc[i] = "DatabaseError"
           /\ CountLevel(log[i], "exception") = 0
           /\ cursor[i] = 0

C3_Witness ==
    \E i \in Calls :
        pc[i] = "raised" /\ bodyOutcome[i] = "not_run" /\ conn[i] = 0

\* C4: in no terminal state of a call does a connection it opened remain
\* unclosed.
C4_NoConnectionLeft ==
    \A i \in Calls :
        pc[i] \in Terminal
        => \A c \in OpenedBy(i) : ~connections[c].open

\* C5: the resolved options have exactly the six keys; each value is the
\* configured one when the key is in the block, whatever it is, and the
\* documented default otherwise; other keys of the block do not appear.
C5_OptionsResolved ==
    \A i \in Calls :
        Resolved(i)
        => /\ DOMAIN _options[i] = SixKeys
           /\ \A k \in SixKeys :
                 _options[i][k] =
                     IF k \in DOMAIN ConfiguredBlock
                     THEN ConfiguredBlock[k]
                     ELSE DocumentedDefault(k)

\* some keys overridden, one by a falsy value, some defaulted, one unknown key
C5_Witness ==
    \E i \in Calls :
        /\ Resolved(i)
        /\ "timeout" \in DOMAIN ConfiguredBlock
        /\ "pass" \in DOMAIN ConfiguredBlock
        /\ ConfiguredBlock["pass"] = PyStr("")
        /\ "port" \in DOMAIN ConfiguredBlock
        /\ "host" \notin DOMAIN ConfiguredBlock

\* the configuration sets a service: the key is there with a non-empty value
ServiceSet ==
    /\ "service" \in DOMAIN ConfiguredBlock
    /\ ConfiguredBlock["service"] \notin {PyBool(FALSE), PyStr(""), PyNone}

\* C6: the descriptor is built by service name, without sid, exactly when the
\* service option is non-empty, and by sid otherwise; the resolved host and
\* port are used and the connection is opened with the resolved user and
\* pass and that descriptor.
C6_Addressing ==
    \A i \in Calls :
        conn[i] # 0
        => LET o == _options[i]
               c == connections[conn[i]]
           IN  /\ c.user = o["user"]
               /\ c.pass = o["pass"]
               /\ c.dsn = dsn[i]
               /\ c.dsn.host = o["host"]
               /\ c.dsn.port = o["port"]
               /\ IF ServiceSet
                  THEN /\ c.dsn.service_name = ConfiguredBlock["service"]
                       /\ c.dsn.sid = PyNone
                  ELSE /\ c.dsn.sid = o["sid"]
                       /\ c.dsn.service_name = PyNone

\* an empty service next to a configured sid: addressed by sid
C6_Witness ==
    \E i \in Calls :
        /\ conn[i] # 0
        /\ "service" \in DOMAIN ConfiguredBlock
        /\ ConfiguredBlock["service"] = PyStr("")
        /\ connections[conn[i]].dsn.sid = PyStr("ORCL")

\* C7: without the driver the capability check reports false with a
\* non-empty reason; with the driver it reports true with an empty reason.
C7_CapabilityCheck ==
    virtualResult # <<>>
    => IF cx_Oracle = "None"
       THEN virtualResult[1] = FALSE /\ virtualResult[2] # ""
       ELSE virtualResult = <<TRUE, "">>

C7_Witness ==
    virtualResult # <<>> /\ cx_Oracle = "None"

\* C8: concurrent calls share nothing: each call has at most one connection
\* open, a connection is used and closed by the call that opened it only,
\* there are never more open connections than calls in flight, and no
\* connection is open when all calls have ended.
C8_Isolation ==
    /\ \A i \in Calls :
          Cardinality({c \in OpenedBy(i) : connections[c].open}) <= 1
    /\ \A c \in 1..Len(connections) :
          /\ connections[c].closedBy \subseteq {connections[c].opener}
          /\ connections[c].usedBy \subseteq {connections[c].opener}
    /\ Cardinality({c \in 1..Len(connections) : connections[c].open})
          <= Cardinality({i \in Calls : pc[i] \notin Terminal \cup {"idle"}})
    /\ (\A i \in Calls : pc[i] \in Terminal)
          => \A c \in 1..Len(connections) : ~connections[c].open

\* C9: one debug entry for each of the six keys missing from the block and
\* none for a key that is present.
C9_DebugPerDefault ==
    \A i \in Calls :
        Resolved(i)
        => /\ CountLevel(log[i], "debug")
                 = Cardinality(SixKeys \ DOMAIN ConfiguredBlock)
           /\ \A k \in SixKeys :
                 CountDebugFor(log[i], k)
                     = IF k \in DOMAIN ConfiguredBlock THEN 0 ELSE 1

\* three keys configured, three defaulted
C9_Witness ==
    \E i \in Calls :
        /\ Resolved(i)
        /\ SixKeys \cap DOMAIN ConfiguredBlock = {"user", "port", "service"}
        /\ CountLevel(log[i], "debug") = 3

\* C10: an error of the body that is not a database error reaches the
\* caller unchanged and unlogged, after the connection was closed once.
C10_OtherErrorPropagates ==
    \A i \in Calls :
        (pc[i] \in Terminal /\ bodyOutcome[i] = "OtherError")
        => /\ pc[i] = "raised"
           /\ exc[i] = "OtherError"
           /\ CountLevel(log[i], "exception") = 0
           /\ Cardinality(OpenedBy(i)) = 1
           /\ \A c \in OpenedBy(i) :
                 connections[c].closes = 1 /\ ~connections[c].open

C10_Witness ==
    \E i \in Calls : pc[i] = "raised" /\ bodyOutcome[i] = "OtherError"

====
